---- MODULE Spec2Model ----
(***************************************************************************)
(* Model of market-notifier.py: one scheduled process per run.  A run      *)
(* loads crash_state.json, fetches a market snapshot, takes one branch of  *)
(* run_check (fetch error, EOD summary, missing move, crash deployment,    *)
(* tranches exhausted, no trigger) and saves the state it was returned.    *)
(*                                                                         *)
(* Python lists are sequences; Python's 0-based index i is element i+1.    *)
(* None is the empty sequence <<>>, a present value v is <<v>>.            *)
(* Percentages and VIX readings are integers in hundredths (the code       *)
(* rounds nifty_pct to two decimals), weights are integers in thousandths. *)
(***************************************************************************)
EXTENDS Integers, Sequences, FiniteSets, TLC

VARIABLES
    file,          \* content of crash_state.json (STATE_FILE)
    env,           \* BOT_TOKEN / CHAT_ID as read from the environment
    pc,            \* position of the process inside __main__ / run_check
    run,           \* number of the current scheduled run
    state,         \* run_check's local `state`
    data,          \* run_check's local `data` (result of fetch_market_data)
    now,           \* wall clock in IST read by is_eod_run
    idx,           \* run_check's local `idx` (<<>> is None)
    amount,        \* run_check's local `amount`
    alloc,         \* run_check's local `alloc` (fund -> rupees)
    log,           \* calls of send_telegram made by this run, with outcome
    selections,    \* tranche indices selected so far, over all runs
    delivered      \* crash notifications Telegram accepted, over all runs

vars == <<file, env, pc, run, state, data, now, idx, amount, alloc, log,
          selections, delivered>>

----------------------------------------------------------------------------
(* Bounds *)

MaxRuns == 2
MaxAmount == 60

----------------------------------------------------------------------------
(* CONFIG, lines 25-38 *)

CRASH_SEQUENCE == <<20000, 20000, 10000, 20000, 20000, 10000>>

FUNDS == <<"Navi Nifty India Manufacturing Index Fund",
           "Navi Flexi Cap Fund",
           "Navi Nifty Midcap 150 Index Fund",
           "Navi Nifty 50 Index Fund">>

\* 20.0, in hundredths
VIX_THRESHOLD == 2000

\* -3.0 percent, in hundredths
CRASH_TRIGGER_PCT == -300

None == <<>>

Some(v) == <<v>>

----------------------------------------------------------------------------
(* Python helpers *)

RECURSIVE SumSeq(_)
\* sum(list) of integers
SumSeq(s) == IF s = <<>> THEN 0 ELSE Head(s) + SumSeq(Tail(s))

RECURSIVE CountTrue(_)
\* sum(list) of booleans: True counts 1
CountTrue(s) == IF s = <<>> THEN 0
                ELSE (IF Head(s) THEN 1 ELSE 0) + CountTrue(Tail(s))

\* [False] * n
AllFalse(n) == [i \in 1..n |-> FALSE]

\* variant: the last False instead of the first
IndexOfFalse_last(s) ==
    IF \E i \in 1..Len(s) : s[i] = FALSE
    THEN Some((CHOOSE i \in 1..Len(s) :
                  /\ s[i] = FALSE
                  /\ \A j \in (i + 1)..Len(s) : s[j] = TRUE) - 1)
    ELSE None

\* list.index(False): the 0-based position of the first False, None when
\* list.index raises ValueError
IndexOfFalse(s) ==
    IF \E i \in 1..Len(s) : s[i] = FALSE
    THEN Some((CHOOSE i \in 1..Len(s) :
                  /\ s[i] = FALSE
                  /\ \A j \in 1..(i - 1) : s[j] = TRUE) - 1)
    ELSE None

----------------------------------------------------------------------------
(* Values of the persisted file and of `state` *)

\* a JSON value as run_check can tell it apart:
\*   "dict_list"    {"deployed": [bool, ...]}
\*   "dict_nokey"   an object without the key "deployed"
\*   "dict_nonlist" {"deployed": <not a list>}
\*   "nondict"      a JSON value that is not an object
Json(shape, deployed) == [shape |-> shape, deployed |-> deployed]

NoState == Json("unset", <<>>)

FreshState == Json("dict_list", AllFalse(Len(CRASH_SEQUENCE)))

Missing == [kind |-> "missing", val |-> NoState]

Unparseable == [kind |-> "unparseable", val |-> NoState]

Parsed(v) == [kind |-> "json", val |-> v]

\* files in the format save_state writes for a CrashState
OwnedFiles ==
    { Parsed(Json("dict_list", d)) :
        d \in [1..Len(CRASH_SEQUENCE) -> BOOLEAN] }

\* parseable files of any other shape
ForeignFiles ==
    { Parsed(Json("dict_nokey", <<>>)),
      Parsed(Json("dict_nonlist", <<>>)),
      Parsed(Json("nondict", <<>>)),
      Parsed(Json("dict_list", <<>>)),
      Parsed(Json("dict_list", <<TRUE, FALSE>>)),
      Parsed(Json("dict_list", <<TRUE, TRUE, TRUE, TRUE, TRUE, TRUE, FALSE>>)) }

----------------------------------------------------------------------------
(* load_state / save_state *)

\* variant: the except clause is missing, a file that does not parse yields
\* no record
load_state_nocatch(f) ==
    IF f.kind = "missing" THEN FreshState ELSE f.val

\* load_state(): the parsed content when the file exists and parses, else
\* the fresh record
load_state(f) ==
    IF f.kind = "json" THEN f.val ELSE FreshState

\* save_state(state): json.dump of the value, read back by json.load as the
\* same value
save_state(s) == Parsed(s)

----------------------------------------------------------------------------
(* compute_allocation *)

\* the weight vector, in thousandths
Weights(vix) ==
    IF vix # None /\ vix[1] > VIX_THRESHOLD
    THEN <<250, 325, 100, 325>>
    ELSE <<250, 250, 250, 250>>

\* math.floor(amount * w) for each weight
FloorPer(amt, vix) == [i \in 1..4 |-> (amt * Weights(vix)[i]) \div 1000]

\* variant: the remainder is dropped
PerWithRemainder_dropped(amt, vix) == FloorPer(amt, vix)

\* per after per[0] += diff
PerWithRemainder(amt, vix) ==
    LET per  == FloorPer(amt, vix)
        diff == amt - SumSeq(per)
    IN  [per EXCEPT ![1] = @ + diff]

\* dict(zip(FUNDS, per))
compute_allocation(amt, vix) ==
    LET per == PerWithRemainder(amt, vix)
    IN  [f \in {FUNDS[i] : i \in 1..4} |->
            per[CHOOSE i \in 1..4 : FUNDS[i] = f]]

\* sum(alloc.values())
SumAlloc(a) == SumSeq([i \in 1..4 |-> a[FUNDS[i]]])

NoAlloc == [f \in {FUNDS[i] : i \in 1..4} |-> 0]

----------------------------------------------------------------------------
(* is_eod_run *)

\* variant: no tolerance minute
is_eod_run_exact(t) == t.hour = 18 /\ t.minute = 30

is_eod_run(t) == t.hour = 18 /\ t.minute \in {30, 31}

Clock == { [hour |-> 18, minute |-> 29], [hour |-> 18, minute |-> 30],
           [hour |-> 18, minute |-> 31], [hour |-> 18, minute |-> 32],
           [hour |-> 17, minute |-> 30] }

NoClock == [hour |-> 0, minute |-> 0]

----------------------------------------------------------------------------
(* fetch_market_data: the snapshot as run_check reads it *)

\* nifty_pct as run_check reads it with data.get: a float rounded to two
\* decimals (line 73), or None, the case line 154 guards against
Pcts == {None, Some(-500), Some(-301), Some(-300), Some(-299), Some(150)}

\* data.get("vix"): None from this provider (line 78), a reading from one
\* that fills it in
Vixes == {None, Some(2500)}

NoData == [error |-> FALSE, nifty_pct |-> None, vix |-> None]

Snapshots ==
    { [error |-> TRUE, nifty_pct |-> None, vix |-> None] }
    \cup { [error |-> FALSE, nifty_pct |-> p, vix |-> v] :
             p \in Pcts, v \in Vixes }

----------------------------------------------------------------------------
(* send_telegram *)

\* what one call of send_telegram can come to
SendOutcomes(e) ==
    IF ~e.BOT_TOKEN \/ ~e.CHAT_ID
    THEN {"skipped"}
    ELSE {"sent", "failed", "exception"}

Text(kind, i, amt, used) ==
    [kind |-> kind, idx |-> i, amount |-> amt, used |-> used]

\* the call send_telegram(text) returning with outcome o
send_telegram(text, o) ==
    /\ o \in SendOutcomes(env)
    /\ log' = Append(log, [text |-> text, result |-> o])
    /\ delivered' = IF text.kind = "crash" /\ o = "sent"
                    THEN delivered + 1 ELSE delivered

\* the fields format_eod reads from state: sum and len of state['deployed']
format_eod(s) == Text("eod", None, 0, CountTrue(s.deployed))

\* state['deployed'] evaluates to a list
HasDeployedList(s) == s.shape = "dict_list"

----------------------------------------------------------------------------
(* Initial states *)

Envs == [BOT_TOKEN : BOOLEAN, CHAT_ID : BOOLEAN]

InitLocals ==
    /\ pc = "load"
    /\ run = 1
    /\ state = NoState
    /\ data = NoData
    /\ now = NoClock
    /\ idx = None
    /\ amount = 0
    /\ alloc = NoAlloc
    /\ log = <<>>
    /\ selections = <<>>
    /\ delivered = 0

\* the state file is absent, unreadable, or a CrashState record
Init ==
    /\ file \in {Missing, Unparseable} \cup OwnedFiles
    /\ env \in Envs
    /\ InitLocals

\* the state file holds anything json.load accepts, or nothing
InitAnyFile ==
    /\ file \in {Missing, Unparseable} \cup OwnedFiles \cup ForeignFiles
    /\ env \in Envs
    /\ InitLocals

----------------------------------------------------------------------------
(* run_check, one action per step *)

\* line 142: state = load_state()
LoadState ==
    /\ pc = "load"
    /\ state' = load_state(file)
    /\ pc' = "fetch"
    /\ UNCHANGED <<file, env, run, data, now, idx, amount, alloc, log,
                   selections, delivered>>

\* line 143: data = fetch_market_data(); the clock is the one is_eod_run
\* reads at line 149
FetchMarketData ==
    /\ pc = "fetch"
    /\ data' \in Snapshots
    /\ now' \in Clock
    /\ pc' = "fetched"
    /\ UNCHANGED <<file, env, run, state, idx, amount, alloc, log,
                   selections, delivered>>

\* variant: the return at line 146 is missing, the run goes on to line 149
FetchError_fallthrough ==
    /\ pc = "fetched"
    /\ data.error
    /\ \E o \in SendOutcomes(env) :
          send_telegram(Text("error", None, 0, 0), o)
    /\ data' = [data EXCEPT !.error = FALSE]
    /\ pc' = "fetched"
    /\ UNCHANGED <<file, env, run, state, now, idx, amount, alloc,
                   selections>>

\* lines 144-146: error notification, return state
FetchError ==
    /\ pc = "fetched"
    /\ data.error
    /\ \E o \in SendOutcomes(env) :
          send_telegram(Text("error", None, 0, 0), o)
    /\ pc' = "returned"
    /\ UNCHANGED <<file, env, run, state, data, now, idx, amount, alloc,
                   selections>>

\* variant: the EOD check comes before the error check
EodSummary_first ==
    /\ pc = "fetched"
    /\ is_eod_run(now)
    /\ HasDeployedList(state)
    /\ \E o \in SendOutcomes(env) : send_telegram(format_eod(state), o)
    /\ pc' = "returned"
    /\ UNCHANGED <<file, env, run, state, data, now, idx, amount, alloc,
                   selections>>

\* lines 149-151: EOD summary, return state
EodSummary ==
    /\ pc = "fetched"
    /\ ~data.error
    /\ is_eod_run(now)
    /\ HasDeployedList(state)
    /\ \E o \in SendOutcomes(env) : send_telegram(format_eod(state), o)
    /\ pc' = "returned"
    /\ UNCHANGED <<file, env, run, state, data, now, idx, amount, alloc,
                   selections>>

\* lines 149-150 when state['deployed'] raises inside format_eod: nothing
\* catches it, the process dies before save_state
EodAbort ==
    /\ pc = "fetched"
    /\ ~data.error
    /\ is_eod_run(now)
    /\ ~HasDeployedList(state)
    /\ pc' = "aborted"
    /\ UNCHANGED <<file, env, run, state, data, now, idx, amount, alloc, log,
                   selections, delivered>>

\* variant: a missing move is reported like a fetch error
MissingMove_notifies ==
    /\ pc = "fetched"
    /\ ~data.error
    /\ ~is_eod_run(now)
    /\ data.nifty_pct = None
    /\ \E o \in SendOutcomes(env) :
          send_telegram(Text("error", None, 0, 0), o)
    /\ pc' = "returned"
    /\ UNCHANGED <<file, env, run, state, data, now, idx, amount, alloc,
                   selections>>

\* lines 153-156: nifty_pct is None
MissingMove ==
    /\ pc = "fetched"
    /\ ~data.error
    /\ ~is_eod_run(now)
    /\ data.nifty_pct = None
    /\ pc' = "returned"
    /\ UNCHANGED <<file, env, run, state, data, now, idx, amount, alloc, log,
                   selections, delivered>>

\* line 159: nifty_pct <= CRASH_TRIGGER_PCT, reached past lines 144-156
CrashTriggered ==
    /\ pc = "fetched"
    /\ ~data.error
    /\ ~is_eod_run(now)
    /\ data.nifty_pct # None
    /\ data.nifty_pct[1] <= CRASH_TRIGGER_PCT

\* lines 160-167: pick the first undeployed tranche, size it, mark it
CrashDeploy ==
    /\ CrashTriggered
    /\ HasDeployedList(state)
    /\ IndexOfFalse(state.deployed) # None
    /\ LET i == IndexOfFalse(state.deployed)[1]
       IN  /\ i < Len(CRASH_SEQUENCE)
           /\ idx' = Some(i)
           /\ amount' = CRASH_SEQUENCE[i + 1]
           /\ alloc' = compute_allocation(CRASH_SEQUENCE[i + 1], data.vix)
           /\ state' = [state EXCEPT !.deployed[i + 1] = TRUE]
           /\ selections' = Append(selections, i)
    /\ pc' = "notify"
    /\ UNCHANGED <<file, env, run, data, now, log, delivered>>

\* variant: the tranche is given back when the send does not go through
CrashNotify_rollback ==
    /\ pc = "notify"
    /\ \E o \in SendOutcomes(env) :
          /\ send_telegram(Text("crash", idx, amount,
                                CountTrue(state.deployed)), o)
          /\ state' = IF o = "sent" THEN state
                      ELSE [state EXCEPT !.deployed[idx[1] + 1] = FALSE]
    /\ pc' = "returned"
    /\ UNCHANGED <<file, env, run, data, now, idx, amount, alloc,
                   selections>>

\* lines 168-176: the crash text (with the count after the update) is sent
CrashNotify ==
    /\ pc = "notify"
    /\ \E o \in SendOutcomes(env) :
          send_telegram(Text("crash", idx, amount, CountTrue(state.deployed)),
                        o)
    /\ pc' = "returned"
    /\ UNCHANGED <<file, env, run, state, data, now, idx, amount, alloc,
                   selections>>

\* lines 161-163, 177-178: index raised ValueError, idx is None
CrashExhausted ==
    /\ CrashTriggered
    /\ HasDeployedList(state)
    /\ IndexOfFalse(state.deployed) = None
    /\ idx' = None
    /\ pc' = "returned"
    /\ UNCHANGED <<file, env, run, state, data, now, amount, alloc, log,
                   selections, delivered>>

\* lines 161, 165 raising something other than ValueError: state['deployed']
\* is no list (KeyError, TypeError, AttributeError) or idx is past the end
\* of CRASH_SEQUENCE (IndexError); the process dies before save_state
CrashAbort ==
    /\ CrashTriggered
    /\ \/ ~HasDeployedList(state)
       \/ /\ HasDeployedList(state)
          /\ IndexOfFalse(state.deployed) # None
          /\ IndexOfFalse(state.deployed)[1] >= Len(CRASH_SEQUENCE)
    /\ pc' = "aborted"
    /\ UNCHANGED <<file, env, run, state, data, now, idx, amount, alloc, log,
                   selections, delivered>>

\* lines 179-180: no crash
NoTrigger ==
    /\ pc = "fetched"
    /\ ~data.error
    /\ ~is_eod_run(now)
    /\ data.nifty_pct # None
    /\ ~(data.nifty_pct[1] <= CRASH_TRIGGER_PCT)
    /\ pc' = "returned"
    /\ UNCHANGED <<file, env, run, state, data, now, idx, amount, alloc, log,
                   selections, delivered>>

\* lines 185-186: save_state(new_state)
SaveState ==
    /\ pc = "returned"
    /\ file' = save_state(state)
    /\ pc' = "done"
    /\ UNCHANGED <<env, run, state, data, now, idx, amount, alloc, log,
                   selections, delivered>>

\* the scheduler starts the next process: fresh locals, environment re-read
NextRun ==
    /\ pc \in {"done", "aborted"}
    /\ run < MaxRuns
    /\ run' = run + 1
    /\ env' \in Envs
    /\ pc' = "load"
    /\ state' = NoState
    /\ data' = NoData
    /\ now' = NoClock
    /\ idx' = None
    /\ amount' = 0
    /\ alloc' = NoAlloc
    /\ log' = <<>>
    /\ UNCHANGED <<file, selections, delivered>>

Next ==
    \/ LoadState
    \/ FetchMarketData
    \/ FetchError
    \/ EodSummary
    \/ MissingMove
    \/ CrashDeploy
    \/ CrashNotify
    \/ CrashExhausted
    \/ NoTrigger
    \/ SaveState
    \/ NextRun

Spec == Init /\ [][Next]_vars

NextAnyFile ==
    \/ Next
    \/ EodAbort
    \/ CrashAbort

SpecAnyFile == InitAnyFile /\ [][NextAnyFile]_vars

----------------------------------------------------------------------------
(* compute_allocation on its own *)

AllocVixes == {None, Some(1500), Some(2000), Some(2001), Some(2500)}

InitAlloc ==
    /\ file = Missing
    /\ env = [BOT_TOKEN |-> TRUE, CHAT_ID |-> TRUE]
    /\ pc = "alloc"
    /\ run = 1
    /\ state = NoState
    /\ data \in { [error |-> FALSE, nifty_pct |-> None, vix |-> v] :
                    v \in AllocVixes }
    /\ now = NoClock
    /\ idx = None
    /\ amount \in 0..MaxAmount
    /\ alloc = NoAlloc
    /\ log = <<>>
    /\ selections = <<>>
    /\ delivered = 0

\* alloc = compute_allocation(amount, vix)
AllocCall ==
    /\ pc = "alloc"
    /\ alloc' = compute_allocation(amount, data.vix)
    /\ pc' = "alloc_done"
    /\ UNCHANGED <<file, env, run, state, data, now, idx, amount, log,
                   selections, delivered>>

NextAlloc == AllocCall

SpecAlloc == InitAlloc /\ [][NextAlloc]_vars

----------------------------------------------------------------------------
(* Properties *)

N == Len(CRASH_SEQUENCE)

\* 18:30 up to and including 18:31
InEodWindow(t) == t.hour = 18 /\ t.minute >= 30 /\ t.minute <= 31

\* the crash threshold is met at line 159 of a run that got past the error,
\* EOD and missing-move checks
AtCrashCheck ==
    /\ pc = "fetched"
    /\ ~data.error
    /\ ~InEodWindow(now)
    /\ data.nifty_pct # None
    /\ data.nifty_pct[1] <= -300

\* C1: a run with percentMove <= -3.0 (fetch ok, outside the EOD window) and
\* an undeployed tranche selects the lowest index i with deployed[i] false,
\* uses amount CRASH_SEQUENCE[i] and sets exactly deployed[i]; over the runs
\* the selected indices strictly increase, so none is selected twice.
C1_TranchesInOrderOnce ==
    [][ /\ ( /\ AtCrashCheck
             /\ \E k \in 1..N : state.deployed[k] = FALSE
             /\ pc' # pc )
           => \E i \in 0..(N - 1) :
                 /\ state.deployed[i + 1] = FALSE
                 /\ \A j \in 0..(i - 1) : state.deployed[j + 1] = TRUE
                 /\ idx' = <<i>>
                 /\ amount' = CRASH_SEQUENCE[i + 1]
                 /\ state'.deployed = [state.deployed EXCEPT ![i + 1] = TRUE]
                 /\ state'.shape = state.shape
                 /\ selections' = Append(selections, i)
        /\ \A a, b \in 1..Len(selections') :
              a < b => selections'[a] < selections'[b]
      ]_vars

C1_Witness ==
    /\ pc = "notify"
    /\ run = 2
    /\ Len(selections) = 2
    /\ idx = <<selections[2]>>

\* C2: in every state from load() to save() the deployed sequence has
\* length 6 and no entry goes from true to false; what save() writes is that
\* sequence.
C2_LengthFixedMonotone ==
    [][ /\ pc' \notin {"load"} => Len(state'.deployed) = 6
        /\ (pc \notin {"load"} /\ pc' \notin {"load"})
              => \A i \in 1..6 : state.deployed[i] => state'.deployed[i]
        /\ pc' = "done" => /\ file'.kind = "json"
                           /\ file'.val.deployed = state'.deployed
      ]_vars

\* C3: a run whose fetch succeeded inside the 18:30-18:31 window sends the
\* EOD summary and nothing else, never reaches the crash notification and
\* returns the deployed record as loaded, whatever percentMove is.
C3_EodPrecedence ==
    (~data.error /\ InEodWindow(now))
       => /\ pc # "notify"
          /\ idx = None
          /\ pc = "returned" => /\ Len(log) = 1
                                /\ log[1].text.kind = "eod"
                                /\ state = load_state(file)

C3_Witness ==
    /\ pc = "returned"
    /\ ~data.error
    /\ now = [hour |-> 18, minute |-> 31]
    /\ data.nifty_pct = <<-500>>
    /\ \E k \in 1..N : state.deployed[k] = FALSE
    /\ Len(log) = 1
    /\ log[1].text.kind = "eod"

\* C4: a run calls the notification transport at most once.
C4_AtMostOneNotification == Len(log) <= 1

C4_Witness ==
    /\ pc = "done"
    /\ Len(log) = 1
    /\ log[1].text.kind = "crash"

\* C5: the per-fund amounts compute_allocation returns sum to the amount,
\* for either weight vector.
C5_AllocationSums ==
    pc = "alloc_done"
       => LET high == data.vix # <<>> /\ data.vix[1] > 2000
              w    == IF high THEN <<250, 325, 100, 325>>
                              ELSE <<250, 250, 250, 250>>
              fl   == [i \in 1..4 |-> (amount * w[i]) \div 1000]
          IN  /\ SumAlloc(alloc) = amount
              /\ \A i \in 2..4 : alloc[FUNDS[i]] = fl[i]
              /\ alloc[FUNDS[1]] = amount - fl[2] - fl[3] - fl[4]
              /\ \A i \in 1..4 : alloc[FUNDS[i]] >= 0

C5_Witness ==
    /\ pc = "alloc_done"
    /\ amount = 7
    /\ data.vix = <<2500>>
    /\ alloc[FUNDS[1]] = 3
    /\ alloc[FUNDS[2]] = 2
    /\ alloc[FUNDS[3]] = 0
    /\ alloc[FUNDS[4]] = 2

\* C6: whatever the state file holds, no run aborts with an unhandled
\* error; every run gets to save_state.
C6_NeverAborts == pc # "aborted"

\* C7: load() on a missing or unparseable file returns deployed = [False]*6.
C7_LoadFailOpen ==
    (pc = "fetch" /\ file.kind \in {"missing", "unparseable"})
       => state = [shape |-> "dict_list",
                   deployed |-> <<FALSE, FALSE, FALSE, FALSE, FALSE, FALSE>>]

C7_Witness ==
    /\ pc = "fetch"
    /\ file.kind = "unparseable"

\* C8: on a provider error the run sends exactly one error notification,
\* makes no EOD or crash check (even inside the EOD window) and returns the
\* loaded state unchanged.
C8_FetchErrorOnly ==
    data.error
       => /\ pc # "notify"
          /\ idx = None
          /\ pc = "returned" => /\ Len(log) = 1
                                /\ log[1].text.kind = "error"
                                /\ state = load_state(file)

C8_Witness ==
    /\ pc = "returned"
    /\ data.error
    /\ InEodWindow(now)
    /\ \E k \in 1..N : state.deployed[k] = FALSE
    /\ Len(log) = 1

\* C9: the missing-move, exhausted and no-trigger branches send nothing and
\* return the state as loaded.
C9_QuietBranches ==
    [][ ( /\ pc = "fetched"
          /\ ~data.error
          /\ ~InEodWindow(now)
          /\ \/ data.nifty_pct = None
             \/ data.nifty_pct[1] > -300
             \/ /\ data.nifty_pct[1] <= -300
                /\ \A k \in 1..Len(state.deployed) : state.deployed[k] = TRUE
          /\ pc' # pc )
        => /\ pc' = "returned"
           /\ log' = <<>>
           /\ delivered' = delivered
           /\ state' = state
           /\ state' = load_state(file')
      ]_vars

C9_Witness ==
    /\ pc = "returned"
    /\ ~data.error
    /\ ~InEodWindow(now)
    /\ data.nifty_pct = <<-301>>
    /\ CountTrue(state.deployed) = 6
    /\ log = <<>>

\* C10: in a crash run the tranche is marked before the send is attempted
\* and stays marked, and is what gets saved, whatever the send comes to;
\* delivered crash notifications never outnumber deployed tranches.
C10_DeployIndependentOfSend ==
    /\ idx # None
          => /\ state.deployed[idx[1] + 1] = TRUE
             /\ pc = "notify" => log = <<>>
             /\ pc = "done" => file.val.deployed[idx[1] + 1] = TRUE
    /\ delivered <= Len(selections)
    /\ pc = "done" => delivered <= CountTrue(file.val.deployed)

C10_Witness ==
    /\ pc = "done"
    /\ idx # None
    /\ Len(log) = 1
    /\ log[1].result \in {"failed", "exception", "skipped"}
    /\ delivered < Len(selections)

====
